---------------------------- MODULE Spec2Model ----------------------------
(***************************************************************************)
(* Market Profile / Volume Profile builders of                             *)
(*   QuantitativeAnalysisAndVisualization/MarketProfileVolumeProfile/      *)
(*     scripts/MarketProfileVolumeProfile.py          ("scripts" copy)     *)
(*   TradingPortfolioRiskManagement/QuantAnalysisProject/Classes/          *)
(*     MarketProfileVolumeProfile.py                  ("Classes" copy)     *)
(*                                                                         *)
(* Prices are integers counted in ticks of 0.001 (10.03 is 10030).  The    *)
(* program keeps them as binary64 floats; a float is modelled exactly, as  *)
(* a pair [t, e] standing for the real number (t + e / 2^62) / 1000: t is  *)
(* the decimal the float stands for and e the binary rounding error.  The  *)
(* float operations the builders perform (the product before math.floor /  *)
(* math.ceil, the quotient inside np.arange, the sum high + granularity)   *)
(* are evaluated on these pairs with the round-to-nearest-even rule, so    *)
(* the model takes the branch the float program takes.                     *)
(*                                                                         *)
(* Masses of the volume profile are exact rationals, kept as integers in   *)
(* units of 1 / MassUnit of a unit of volume.                              *)
(***************************************************************************)
EXTENDS Integers, Sequences, FiniteSets

----------------------------------------------------------------------------
(* Bounds of the model.                                                    *)

\* lowest price a bar can have, in ticks (10.027)
BasePrice == 10027
\* prices of the bars range over BasePrice .. BasePrice + PriceSpan
PriceSpan == 5
\* a DataFrame holds 0 .. MaxBars rows
MaxBars == 2
\* the Volume of a row is 0 or MaxVolume
MaxVolume == 2
\* the accepted granularities that are tried are those <= MaxGranularity ticks
MaxGranularity == 5
\* generate_letter_list is called with n in 0 .. MaxLabels
MaxLabels == 703
\* price_structure_analysis is given a dict of 0 .. MaxLevels price levels,
\* each holding a list of 0 .. MaxLetters letters or a number 0 .. MaxCount
MaxLevels == 3
MaxLetters == 2
MaxCount == 5
\* MarketRegimeAnalysis is given bars of 0 .. MaxDays calendar days and its
\* methods are called up to MaxCalls times
MaxDays == 3
MaxCalls == 2
MaxNames == 2
MaxStamps == 2
MaxRows == 2
MaxUploads == 3

----------------------------------------------------------------------------
(* Python values.                                                          *)

\* None is the empty tuple, a value x is <<x>>
None == <<>>
Some(x) == <<x>>

Max(S) == CHOOSE x \in S : \A y \in S : y <= x
Min(S) == CHOOSE x \in S : \A y \in S : x <= y

\* 2^n for n in 0 .. 30, as a table
Pow2Table[n \in 0 .. 30] == IF n = 0 THEN 1 ELSE 2 * Pow2Table[n - 1]
Pow2(n) == Pow2Table[n]

RECURSIVE Gcd(_, _)
Gcd(a, b) == IF b = 0 THEN a ELSE Gcd(b, a % b)

RECURSIVE LcmUpTo(_)
LcmUpTo(n) == IF n <= 1 THEN 1 ELSE (LcmUpTo(n - 1) * n) \div Gcd(LcmUpTo(n - 1), n)

----------------------------------------------------------------------------
(* binary64 arithmetic on the floats the builders compute with.            *)
(* A float x = [t |-> t, e |-> e] is the real (t + e / 2^62) / 1000.       *)

\* 2^n modulo 250 for n in 0 .. 62, as a table
Pow2Mod250[n \in 0 .. 62] == IF n = 0 THEN 1 ELSE (2 * Pow2Mod250[n - 1]) % 250
\* 2^n modulo m for m = 125 or 250
Pow2Mod(n, m) == Pow2Mod250[n] % m

\* floor(log2(n)) for n >= 1
RECURSIVE ILog2(_)
ILog2(n) == IF n < 2 THEN 0 ELSE 1 + ILog2(n \div 2)

\* binade of t / 1000, offset by 10: 2^(Shift - 10) <= t / 1000 < 2^(Shift - 9)
Shift(t) == ILog2((t * 1024) \div 1000)

\* binade of the real (t + e / 2^62) / 1000
ShiftOf(t, e) ==
    IF e < 0 /\ t * 1024 = Pow2(Shift(t)) * 1000 THEN Shift(t) - 1 ELSE Shift(t)

\* the error of the float nearest to (t + e / 2^62) / 1000 (ties to even):
\* floats of that binade are the multiples of 2^(ShiftOf - 62)
RoundErr(t, e) ==
    LET S    == ShiftOf(t, e)
        Mod  == 1000 * Pow2(S)
        rem  == (Pow2(S + 3) * ((t * Pow2Mod(59 - S, 125)) % 125) + e) % Mod
        rem2 == (Pow2(S + 3) * ((t * Pow2Mod(59 - S, 250)) % 250) + e) % (2 * Mod)
    IN  IF 2 * rem < Mod THEN e - rem
        ELSE IF 2 * rem > Mod THEN e + Mod - rem
        ELSE IF rem2 < Mod THEN e - rem ELSE e + Mod - rem

\* the float of the decimal t / 1000: a parsed price, round(x, 3), n / multiplier
Float(t) == [t |-> t, e |-> RoundErr(t, 0)]

\* x + y rounded to a float
FloatAdd(x, y) == [t |-> x.t + y.t, e |-> RoundErr(x.t + y.t, x.e + y.e)]

\* math.floor(x * m) for an integer m that divides 1000
FloorTimes(x, m) ==
    LET gt == 1000 \div m
        n  == x.t \div gt
        half == IF n = Pow2(ILog2(n)) THEN gt * Pow2(ILog2(n) + 8)
                                      ELSE gt * Pow2(ILog2(n) + 9)
    IN  IF x.t % gt # 0 THEN n
        ELSE IF n = 0 THEN (IF x.e >= 0 THEN 0 ELSE -1)
        ELSE IF -(x.e) > half THEN n - 1 ELSE n

\* math.ceil(x * m) for an integer m that divides 1000
CeilTimes(x, m) ==
    LET gt == 1000 \div m
        n  == x.t \div gt
    IN  IF x.t % gt # 0 THEN n + 1
        ELSE IF n = 0 THEN (IF x.e > 0 THEN 1 ELSE 0)
        ELSE IF x.e > gt * Pow2(ILog2(n) + 9) THEN n + 1 ELSE n

\* len(np.arange(start, stop, step)) = ceil((stop - start) / step); the
\* difference of two floats within a factor 2 of each other is exact
ArangeLen(start, stop, step) ==
    LET dt == stop.t - start.t
        de == stop.e - start.e
        n  == dt \div step.t
        X  == de - n * step.e
        Y  == step.t * Pow2(ILog2(n) + 9)
    IN  IF dt < 0 \/ (dt = 0 /\ de <= 0) THEN 0
        ELSE IF dt = 0 THEN 1
        ELSE IF dt % step.t # 0 THEN n + 1
        ELSE IF (IF step.e >= 0 THEN X > Y ELSE X >= Y) THEN n + 1 ELSE n

\* [round(p, 3) for p in np.arange(start, stop, step)], in ticks
Arange(start, stop, step) ==
    [i \in 1 .. ArangeLen(start, stop, step) |-> start.t + (i - 1) * step.t]

----------------------------------------------------------------------------
(* Inputs: the DataFrame df and the granularity.                           *)

\* the list taken to hold every number of ticks up to 0.25
WholeTickGranularities == 1 .. 250

\* the accepted granularities 0.001, 0.005, 0.01, 0.02, 0.05, 0.10, 0.25
AcceptedGranularities == {1, 5, 10, 20, 50, 100, 250}

\* granularities tried: 0 (not positive), 0.003 (positive, not accepted) and
\* the accepted ones up to the bound
GranularityInputs ==
    {0, 3} \cup {g \in AcceptedGranularities : g <= MaxGranularity}

Prices == BasePrice .. (BasePrice + PriceSpan)

\* rows of df; Open and Close lie within [Low, High]
Rows ==
    UNION { { [Open |-> l, High |-> h, Low |-> l, Close |-> h, Volume |-> v] :
                h \in l .. (BasePrice + PriceSpan), v \in {0, MaxVolume} } :
            l \in Prices }

DataFrames == UNION { [1 .. n -> Rows] : n \in 0 .. MaxBars }

\* volume masses are integers in units of 1 / MassUnit: every possible
\* number of levels of a bar divides MassUnit
MassUnit == LcmUpTo(PriceSpan + 2)

----------------------------------------------------------------------------
(* dicts: sequences of entries [k |-> key, v |-> value] in insertion order *)

Keys(d) == { d[i].k : i \in DOMAIN d }
Get(d, key) == (CHOOSE i \in DOMAIN d : d[i].k = key)
ValueAt(d, key) == d[Get(d, key)].v

\* dict(sorted(d.items(), reverse=True)): the entries by descending key
RECURSIVE SortedReverse(_)
SortedReverse(d) ==
    IF d = <<>> THEN <<>>
    ELSE LET top == CHOOSE i \in DOMAIN d : \A j \in DOMAIN d : d[j].k <= d[i].k
         IN  <<d[top]>> \o SortedReverse(SubSeq(d, 1, top - 1) \o SubSeq(d, top + 1, Len(d)))

\* sum of the values of a dict
RECURSIVE SumValues(_)
SumValues(d) == IF d = <<>> THEN 0 ELSE d[1].v + SumValues(Tail(d))

----------------------------------------------------------------------------
(* The price ladder.                                                       *)

lowest_price(df)  == Min(UNION { {df[i].Open, df[i].High, df[i].Low, df[i].Close} : i \in DOMAIN df })
highest_price(df) == Max(UNION { {df[i].Open, df[i].High, df[i].Low, df[i].Close} : i \in DOMAIN df })

\* round(math.floor(lowest_price * 1000) / 1000, 3)
min_price(df) == Float(FloorTimes(Float(lowest_price(df)), 1000))
\* round(math.ceil(highest_price * 1000) / 1000, 3)
max_price(df) == Float(CeilTimes(Float(highest_price(df)), 1000))

\* {round(price, 3): empty for price in np.arange(min_price, max_price, step)}
Ladder(df, step, empty) ==
    LET keys == Arange(min_price(df), max_price(df), Float(step))
    IN  [i \in DOMAIN keys |-> [k |-> keys[i], v |-> empty]]

----------------------------------------------------------------------------
(* Count profile: market_profile_and_visualize (scripts),                   *)
(* market_profile_and_visualize_bars (Classes).                             *)

\* the levels of one row: round(price, 3) for price in np.arange(low, high, step)
RowLevels(row, step) == Arange(Float(row.Low), Float(row.High), Float(step))

\* for price in levels: if price in d: d[price] += amount
AddAtLevels(d, levels, amount) ==
    [i \in DOMAIN d |->
        [k |-> d[i].k,
         v |-> d[i].v + amount * Cardinality({j \in DOMAIN levels : levels[j] = d[i].k})]]

\* the loop over df.iterrows() of the count profile, rows r .. len(df)
RECURSIVE CountRows(_, _, _, _)
CountRows(d, df, granularity, r) ==
    IF r > Len(df) THEN d
    ELSE CountRows(AddAtLevels(d, RowLevels(df[r], granularity), 1), df, granularity, r + 1)

\* price_dict of the count profile: the 0.001 ladder, then the counts
CountTable(df, granularity) == CountRows(Ladder(df, 1, 0), df, granularity, 1)

\* multiplier = int(1 / granularity)
Multiplier(granularity) == 1000 \div granularity

\* bucket = round(math.floor(price * multiplier) / multiplier, 3), in ticks
Bucket(price, granularity) ==
    FloorTimes(Float(price), Multiplier(granularity)) * granularity

\* aggregated_dict: the buckets in order of first appearance, each with the
\* sum of the values of the keys that fall in it
RECURSIVE Aggregate(_, _, _)
Aggregate(agg, d, granularity) ==
    IF d = <<>> THEN agg
    ELSE LET bucket == Bucket(d[1].k, granularity)
             agg1   == IF bucket \in Keys(agg) THEN agg
                       ELSE Append(agg, [k |-> bucket, v |-> 0])
             agg2   == [i \in DOMAIN agg1 |->
                          IF agg1[i].k = bucket
                          THEN [k |-> bucket, v |-> agg1[i].v + d[1].v]
                          ELSE agg1[i]]
         IN  Aggregate(agg2, Tail(d), granularity)

\* sorted_aggregated_dict
Rebucket(d, granularity) == SortedReverse(Aggregate(<<>>, d, granularity))

\* np.argmax taken to return the last index of the maximum
ArgMaxLast(d) ==
    CHOOSE i \in DOMAIN d :
        /\ \A j \in DOMAIN d : d[j].v <= d[i].v
        /\ \A j \in (i + 1) .. Len(d) : d[j].v < d[i].v

\* np.argmax(counts): the first index of the maximum
ArgMax(d) ==
    CHOOSE i \in DOMAIN d :
        /\ \A j \in DOMAIN d : d[j].v <= d[i].v
        /\ \A j \in 1 .. (i - 1) : d[j].v < d[i].v

\* the comparison taken to be strict: cumulative > total * 0.70
ExceedsThreshold(cumulative, total) == 10 * cumulative > 7 * total

\* cumulative >= total * 0.70
ReachesThreshold(cumulative, total) == 10 * cumulative >= 7 * total

\* The loop "for i in np.argsort(counts)[::-1]": np.argsort sorts with its
\* default kind, quicksort, which is not stable, so the reversed order lists
\* the indices by non-increasing mass with equal masses in an order the numpy
\* build decides.  The sets of indices the loop can have appended when it
\* breaks, given the set appended so far.
RECURSIVE ValueAreaRuns(_, _, _)
ValueAreaRuns(d, taken, cumulative) ==
    LET rest == DOMAIN d \ taken
        next == { i \in rest : \A j \in rest : d[j].v <= d[i].v }
    IN  IF rest = {} THEN {taken}
        ELSE UNION { IF ReachesThreshold(cumulative + d[i].v, SumValues(d))
                     THEN {taken \cup {i}}
                     ELSE ValueAreaRuns(d, taken \cup {i}, cumulative + d[i].v)
                     : i \in next }

\* value_area_prices, as a set, for each run of the loop
ValueAreaOutcomes(d) ==
    { { d[i].k : i \in run } : run \in ValueAreaRuns(d, {}, 0) }

----------------------------------------------------------------------------
(* Volume profile: volume_profile_and_visualize (both copies).             *)

\* the divisor taken to be the number of 0.001 levels of the row
num_fine_levels(row, granularity) ==
    ArangeLen(Float(row.Low), Float(row.High), Float(1))

\* num_levels = len(np.arange(low, high, granularity))
num_levels(row, granularity) ==
    ArangeLen(Float(row.Low), Float(row.High), Float(granularity))

\* volume_per_level = volume / num_levels if num_levels > 0 else 0
volume_per_level(row, granularity) ==
    IF num_levels(row, granularity) > 0
    THEN (row.Volume * MassUnit) \div num_levels(row, granularity)
    ELSE 0

\* the loop over df.iterrows() of the volume profile, rows r .. len(df)
RECURSIVE VolumeRows(_, _, _, _)
VolumeRows(d, df, granularity, r) ==
    IF r > Len(df) THEN d
    ELSE VolumeRows(AddAtLevels(d, RowLevels(df[r], granularity),
                                volume_per_level(df[r], granularity)),
                    df, granularity, r + 1)

\* volume_dict: the ladder of step granularity, then the shares
VolumeTable(df, granularity) ==
    VolumeRows(Ladder(df, granularity, 0), df, granularity, 1)

----------------------------------------------------------------------------
(* Letter profile: market_profile_with_letters (scripts),                   *)
(* market_profile_and_visualize_letters (Classes).                          *)

Alphabet ==
    <<"A", "B", "C", "D", "E", "F", "G", "H", "I", "J", "K", "L", "M",
      "N", "O", "P", "Q", "R", "S", "T", "U", "V", "W", "X", "Y", "Z">>

\* the while loop taken to divide without the "- 1": plain base 26
RECURSIVE LetterOfPlainBase(_, _)
LetterOfPlainBase(i, letter) ==
    IF i < 0 THEN letter
    ELSE LetterOfPlainBase(IF i < Len(Alphabet) THEN -1 ELSE i \div Len(Alphabet),
                           Alphabet[(i % Len(Alphabet)) + 1] \o letter)

\* the while loop of generate_letter_list for one index
RECURSIVE LetterOf(_, _)
LetterOf(i, letter) ==
    IF i < 0 THEN letter
    ELSE LetterOf((i \div Len(Alphabet)) - 1, Alphabet[(i % Len(Alphabet)) + 1] \o letter)

generate_letter_list(n) == [i \in 1 .. n |-> LetterOf(i - 1, "")]

\* the levels of one row: np.arange(low, high + granularity, granularity)
LetterLevels(row, granularity) ==
    Arange(Float(row.Low), FloatAdd(Float(row.High), Float(granularity)),
           Float(granularity))

\* for price in levels: if price in d: d[price].append(letter)
AppendAtLevels(d, levels, letter) ==
    [i \in DOMAIN d |->
        [k |-> d[i].k,
         v |-> IF \E j \in DOMAIN levels : levels[j] = d[i].k
               THEN Append(d[i].v, letter) ELSE d[i].v]]

\* the loop over enumerate(df.iterrows()), rows r .. len(df)
RECURSIVE LetterRows(_, _, _, _)
LetterRows(d, df, granularity, r) ==
    IF r > Len(df) THEN d
    ELSE LetterRows(AppendAtLevels(d, LetterLevels(df[r], granularity),
                                   generate_letter_list(Len(df))[r]),
                    df, granularity, r + 1)

\* price_dict of the letter profile
LetterTable(df, granularity) ==
    LetterRows(Ladder(df, granularity, <<>>), df, granularity, 1)

\* the dict taken to be returned in its insertion order
InsertionOrder(d) == d

\* {k: d[k] for k in reversed(d)}
Reversed(d) == [i \in DOMAIN d |-> d[Len(d) + 1 - i]]

\* price_counts = {price: len(letters)}, sorted by descending price
sorted_price_counts(d) ==
    SortedReverse([i \in DOMAIN d |-> [k |-> d[i].k, v |-> Len(d[i].v)]])

\* the Value Area loop of the Classes letter profile walks
\* sorted_price_counts in its own (descending price) order: the number of
\* entries appended when it breaks
RECURSIVE LetterAreaLen(_, _, _)
LetterAreaLen(d, n, cumulative) ==
    IF n >= Len(d) THEN n
    ELSE IF ReachesThreshold(cumulative + d[n + 1].v, SumValues(d)) THEN n + 1
    ELSE LetterAreaLen(d, n + 1, cumulative + d[n + 1].v)

----------------------------------------------------------------------------
(* State.                                                                  *)

VARIABLES
    df,                 \* the DataFrame passed to the builder
    granularity,        \* the granularity passed, in ticks
    pc,                 \* "ready", or the builder that has run
    exc,                \* the exception raised inside the builder, or None
    raised,             \* TRUE when that exception reached the caller
    price_dict,         \* the builder's table before re-bucketing, or None
    value_area_prices,  \* the set of prices appended by the Value Area loop
    profile,            \* the returned dict, or None
    poc, vah, val,      \* the returned PoC, VAH, VAL, or None
    n,                  \* the argument of generate_letter_list
    letters,            \* the list generate_letter_list returned, or None
    agg_dict,           \* the argument of price_structure_analysis
    printed,            \* the lines price_structure_analysis has printed
    regime_df,          \* self.df of MarketRegimeAnalysis, one entry per calendar day
    market_regime_counts,   \* self.market_regime_counts
    hurst_values_by_date,   \* self.hurst_values_by_date, in insertion order
    hurst_df,           \* self.hurst_df, or None before analyze_trends
    tallied,            \* the counter increments made so far: date and label
    calls,              \* the number of method calls made so far
    called,             \* the method called last, "" before the first call
    csv_file,           \* the file of the uploader: its name and its DateTime column
    futures_name,       \* self.futures_name, or None
    upload_df,          \* the DateTime column of self.df, empty before load_csv
    futures_table,      \* the rows of futures_table seen by the connection
    datetime_table,     \* the rows of datetime_table seen by the connection
    price_table,        \* the rows of price_table seen by the connection
    committed,          \* the number of rows of each table committed
    returned,           \* the last uploader call with what it returned, or None
    uploads,            \* the number of uploader calls made so far
    fine_granularity    \* a granularity below 0.001, in fifths of 0.001; 0 when unused

\* the state of the profile builders
profile_vars == <<df, granularity, pc, exc, raised, price_dict, value_area_prices,
                  profile, poc, vah, val>>

\* the state of generate_letter_list called on its own
letter_list_vars == <<n, letters>>

\* the state of price_structure_analysis
structure_vars == <<agg_dict, printed>>

\* the state of a MarketRegimeAnalysis instance
regime_vars == <<regime_df, market_regime_counts, hurst_values_by_date, hurst_df,
                 tallied, calls, called>>

\* the state of a FuturesPostgreSQLUploader and of its database
uploader_vars == <<csv_file, futures_name, upload_df, futures_table, datetime_table,
                   price_table, committed, returned, uploads>>

\* what a profile builder leaves alone
outside_builders == <<letter_list_vars, structure_vars, regime_vars, uploader_vars,
                      fine_granularity>>

vars == <<profile_vars, letter_list_vars, structure_vars, regime_vars, uploader_vars,
          fine_granularity>>

\* no call of price_structure_analysis is under way
NoStructure == agg_dict = <<>> /\ printed = <<>>

\* MarketRegimeAnalysis.__init__: the counters, the records, no hurst_df yet
NewRegimeAnalysis ==
    /\ market_regime_counts =
          [t \in {"Mean-Reverting", "Random Walk", "Trending"} |-> 0]
    /\ hurst_values_by_date = <<>>
    /\ hurst_df = None
    /\ tallied = <<>>
    /\ calls = 0
    /\ called = ""

\* no MarketRegimeAnalysis is in use
NoRegime == regime_df = <<>> /\ NewRegimeAnalysis

\* FuturesPostgreSQLUploader.__init__: nothing loaded
NewUploader ==
    /\ futures_name = None
    /\ upload_df = <<>>
    /\ returned = None
    /\ uploads = 0

\* no uploader built, no database
NoUploader ==
    /\ csv_file = [name |-> "", DateTime |-> <<>>]
    /\ NewUploader
    /\ futures_table = <<>>
    /\ datetime_table = <<>>
    /\ price_table = <<>>
    /\ committed = [futures |-> 0, datetimes |-> 0, prices |-> 0]

\* no call of generate_letter_list on its own is under way
NoLetterList == n = 0 /\ letters = None

\* no profile builder has been called
NoBuilder ==
    /\ pc = "ready"
    /\ exc = None
    /\ raised = FALSE
    /\ price_dict = None
    /\ value_area_prices = {}
    /\ profile = None
    /\ poc = None
    /\ vah = None
    /\ val = None

Init ==
    /\ df \in DataFrames
    /\ granularity \in GranularityInputs
    /\ NoBuilder
    /\ NoLetterList
    /\ NoStructure
    /\ NoRegime
    /\ NoUploader
    /\ fine_granularity = 0

\* the builder taken to swallow the exception and return an empty profile
ReturnsEmptyProfile(name, e, escapes, table) ==
    /\ pc' = name
    /\ exc' = None
    /\ raised' = FALSE
    /\ price_dict' = table
    /\ value_area_prices' = {}
    /\ profile' = Some(<<>>)
    /\ poc' = None
    /\ vah' = None
    /\ val' = None
    /\ UNCHANGED <<df, granularity, outside_builders>>

\* the builder taken to have no handler: every exception reaches the caller
FailsUncaught(name, e, escapes, table) ==
    /\ pc' = name
    /\ exc' = Some(e)
    /\ raised' = TRUE
    /\ price_dict' = table
    /\ value_area_prices' = {}
    /\ profile' = None
    /\ poc' = None
    /\ vah' = None
    /\ val' = None
    /\ UNCHANGED <<df, granularity, outside_builders>>

\* the builder ends with exception e: it reaches the caller (escapes = TRUE)
\* or is caught and (None, None, None, None) is returned
Fails(name, e, escapes, table) ==
    /\ pc' = name
    /\ exc' = Some(e)
    /\ raised' = escapes
    /\ price_dict' = table
    /\ value_area_prices' = {}
    /\ profile' = None
    /\ poc' = None
    /\ vah' = None
    /\ val' = None
    /\ UNCHANGED <<df, granularity, outside_builders>>

\* PoC and Value Area of sorted_aggregated_dict, then the return
ReturnsValueArea(name, table, sorted_aggregated_dict) ==
    \E area \in ValueAreaOutcomes(sorted_aggregated_dict) :
        /\ pc' = name
        /\ exc' = None
        /\ raised' = FALSE
        /\ price_dict' = Some(table)
        /\ value_area_prices' = area
        /\ profile' = Some(sorted_aggregated_dict)
        /\ poc' = Some(sorted_aggregated_dict[ArgMax(sorted_aggregated_dict)].k)
        /\ vah' = Some(Max(area))
        /\ val' = Some(Min(area))
        /\ UNCHANGED <<df, granularity, outside_builders>>

\* the body of the count profile after the validation of granularity
CountProfile(name, escapes) ==
    IF df = <<>>
    THEN \* math.floor(nan): ValueError
         Fails(name, "ValueError", escapes, None)
    ELSE \E table \in {CountTable(df, granularity)} :
         \E sorted_aggregated_dict \in {Rebucket(table, granularity)} :
            IF sorted_aggregated_dict = <<>>
            THEN \* prices, counts = zip(*{}.items()): ValueError
                 Fails(name, "ValueError", escapes, Some(table))
            ELSE ReturnsValueArea(name, table, sorted_aggregated_dict)

\* scripts: market_profile_and_visualize(df, granularity)
market_profile_and_visualize ==
    /\ pc = "ready"
    /\ IF granularity \notin AcceptedGranularities
       THEN Fails("market_profile_and_visualize", "ValueError", TRUE, None)
       ELSE CountProfile("market_profile_and_visualize", TRUE)

\* the body of the volume profile after the validation of granularity
VolumeProfile(name, escapes) ==
    IF df = <<>>
    THEN Fails(name, "ValueError", escapes, None)
    ELSE \E table \in {VolumeTable(df, granularity)} :
         \E sorted_aggregated_dict \in {Rebucket(table, granularity)} :
            IF sorted_aggregated_dict = <<>>
            THEN Fails(name, "ValueError", escapes, Some(table))
            ELSE ReturnsValueArea(name, table, sorted_aggregated_dict)

\* scripts: volume_profile_and_visualize(df, granularity)
volume_profile_and_visualize ==
    /\ pc = "ready"
    /\ IF granularity \notin AcceptedGranularities
       THEN Fails("volume_profile_and_visualize", "ValueError", TRUE, None)
       ELSE VolumeProfile("volume_profile_and_visualize", TRUE)

\* scripts: market_profile_with_letters(df, granularity) returns the dict only
market_profile_with_letters ==
    /\ pc = "ready"
    /\ IF granularity \notin AcceptedGranularities \/ df = <<>>
       THEN Fails("market_profile_with_letters", "ValueError", TRUE, None)
       ELSE \E table \in {LetterTable(df, granularity)} :
            /\ pc' = "market_profile_with_letters"
            /\ exc' = None
            /\ raised' = FALSE
            /\ price_dict' = Some(table)
            /\ value_area_prices' = {}
            /\ profile' = Some(Reversed(table))
            /\ poc' = None
            /\ vah' = None
            /\ val' = None
            /\ UNCHANGED <<df, granularity, outside_builders>>

\* Classes: market_profile_and_visualize_letters(df, granularity); every
\* exception is caught and (None, None, None, None) returned
market_profile_and_visualize_letters ==
    /\ pc = "ready"
    /\ IF granularity <= 0 \/ df = <<>>
       THEN Fails("market_profile_and_visualize_letters", "ValueError", FALSE, None)
       ELSE \E table \in {LetterTable(df, granularity)} :
            \E counts \in {sorted_price_counts(table)} :
            \E area \in {{ counts[i].k : i \in 1 .. LetterAreaLen(counts, 0, 0) }} :
                IF counts = <<>>
                THEN \* max() of an empty dict: ValueError
                     Fails("market_profile_and_visualize_letters", "ValueError",
                           FALSE, Some(table))
                ELSE /\ pc' = "market_profile_and_visualize_letters"
                     /\ exc' = None
                     /\ raised' = FALSE
                     /\ price_dict' = Some(table)
                     /\ value_area_prices' = area
                     /\ profile' = Some(Reversed(table))
                     /\ poc' = Some(counts[ArgMax(counts)].k)
                     /\ vah' = Some(Max(area))
                     /\ val' = Some(Min(area))
                     /\ UNCHANGED <<df, granularity, outside_builders>>

\* Classes: market_profile_and_visualize_bars(df, granularity)
market_profile_and_visualize_bars ==
    /\ pc = "ready"
    /\ IF granularity <= 0 \/ granularity \notin AcceptedGranularities
       THEN Fails("market_profile_and_visualize_bars", "ValueError", FALSE, None)
       ELSE CountProfile("market_profile_and_visualize_bars", FALSE)

\* Classes: volume_profile_and_visualize(df, granularity)
Classes_volume_profile_and_visualize ==
    /\ pc = "ready"
    /\ IF granularity <= 0 \/ granularity \notin AcceptedGranularities
       THEN Fails("Classes.volume_profile_and_visualize", "ValueError", FALSE, None)
       ELSE VolumeProfile("Classes.volume_profile_and_visualize", FALSE)

Next ==
    \/ market_profile_with_letters
    \/ market_profile_and_visualize
    \/ volume_profile_and_visualize
    \/ market_profile_and_visualize_letters
    \/ market_profile_and_visualize_bars
    \/ Classes_volume_profile_and_visualize

Spec == Init /\ [][Next]_vars

----------------------------------------------------------------------------
(* generate_letter_list called on its own (both copies have the same body). *)

InitLetterList ==
    /\ df = <<>>
    /\ granularity = 1
    /\ NoBuilder
    /\ n \in 0 .. MaxLabels
    /\ letters = None
    /\ NoStructure
    /\ NoRegime
    /\ NoUploader
    /\ fine_granularity = 0

\* scripts: generate_letter_list(n)
scripts_generate_letter_list ==
    /\ pc = "ready"
    /\ pc' = "generate_letter_list"
    /\ letters' = Some(generate_letter_list(n))
    /\ UNCHANGED <<df, granularity, exc, raised, price_dict, value_area_prices,
                   profile, poc, vah, val, n, structure_vars, regime_vars, uploader_vars, fine_granularity>>

\* Classes: generate_letter_list(n)
Classes_generate_letter_list ==
    /\ pc = "ready"
    /\ pc' = "Classes.generate_letter_list"
    /\ letters' = Some(generate_letter_list(n))
    /\ UNCHANGED <<df, granularity, exc, raised, price_dict, value_area_prices,
                   profile, poc, vah, val, n, structure_vars, regime_vars, uploader_vars, fine_granularity>>

NextLetterList ==
    \/ scripts_generate_letter_list
    \/ Classes_generate_letter_list

SpecLetterList == InitLetterList /\ [][NextLetterList]_vars

----------------------------------------------------------------------------
(* price_structure_analysis (scripts and Classes).                         *)

\* a value of agg_dict: a list of letters, or a number (count or volume)
ListValue(items) == [kind |-> "list", items |-> items, number |-> 0]
NumberValue(number) == [kind |-> "number", items |-> <<>>, number |-> number]

StructureValues ==
    { ListValue(SubSeq(generate_letter_list(MaxLetters), 1, length)) :
        length \in 0 .. MaxLetters }
    \cup { NumberValue(number) : number \in 0 .. MaxCount }

\* the dicts given to price_structure_analysis: price levels in descending
\* order from the top of the price window, with any values
StructureDicts ==
    UNION { { [i \in 1 .. levels |->
                 [k |-> BasePrice + PriceSpan + 1 - i, v |-> values[i]]] :
              values \in [1 .. levels -> StructureValues] } :
            levels \in 0 .. MaxLevels }

\* keys[:2]
FirstTwo(d) == SubSeq(d, 1, IF Len(d) < 2 THEN Len(d) ELSE 2)

\* keys[-2:]
LastTwo(d) == SubSeq(d, IF Len(d) < 2 THEN 1 ELSE Len(d) - 1, Len(d))

\* len(agg_dict[key]) if isinstance(agg_dict[key], (list, tuple, str)) else 1
LevelCount(value) == IF value.kind = "list" THEN Len(value.items) ELSE 1

\* sum(... for key in keys)
RECURSIVE price_count(_)
price_count(entries) ==
    IF entries = <<>> THEN 0
    ELSE LevelCount(entries[1].v) + price_count(Tail(entries))

\* the two print statements for high_price_count and low_price_count
StructureLines(d) ==
    << IF price_count(FirstTwo(d)) > 2 THEN "Poor/Weak High" ELSE "Strong High",
       IF price_count(LastTwo(d)) > 2 THEN "Poor Weak Low" ELSE "Strong Low" >>

InitStructure ==
    /\ df = <<>>
    /\ granularity = 1
    /\ NoBuilder
    /\ NoLetterList
    /\ agg_dict \in StructureDicts
    /\ printed = <<>>
    /\ NoRegime
    /\ NoUploader
    /\ fine_granularity = 0

\* scripts: price_structure_analysis(agg_dict), no validation
scripts_price_structure_analysis ==
    /\ pc = "ready"
    /\ pc' = "price_structure_analysis"
    /\ printed' = StructureLines(agg_dict)
    /\ UNCHANGED <<df, granularity, exc, raised, price_dict, value_area_prices,
                   profile, poc, vah, val, letter_list_vars, agg_dict, regime_vars, uploader_vars, fine_granularity>>

\* Classes: price_structure_analysis(agg_dict); the ValueError of a dict of
\* fewer than two price levels is caught and printed
Classes_price_structure_analysis ==
    /\ pc = "ready"
    /\ pc' = "Classes.price_structure_analysis"
    /\ IF Len(agg_dict) < 2
       THEN /\ exc' = Some("ValueError")
            /\ printed' = <<"ValueError: agg_dict must contain at least two price levels to perform analysis.">>
       ELSE /\ exc' = None
            /\ printed' = StructureLines(agg_dict)
    /\ UNCHANGED <<df, granularity, raised, price_dict, value_area_prices,
                   profile, poc, vah, val, letter_list_vars, agg_dict, regime_vars, uploader_vars, fine_granularity>>

NextStructure ==
    \/ scripts_price_structure_analysis
    \/ Classes_price_structure_analysis

SpecStructure == InitStructure /\ [][NextStructure]_vars

----------------------------------------------------------------------------
(* MarketRegimeAnalysis: analyze_trends, plot_trend_analysis.              *)
(* A Hurst exponent is an integer in units of 0.001; NaN is None.          *)

\* the thresholds 0.49 and 0.51 of the classification
LowerThreshold == 490
UpperThreshold == 510

\* max_lag, the default of hurst_exponent
max_lag == 100

\* the Hurst exponents a day's series can have: around both thresholds
HurstValues ==
    { LowerThreshold - 1, LowerThreshold, LowerThreshold + 1,
      UpperThreshold - 1, UpperThreshold, UpperThreshold + 1 }

\* one calendar day of self.df: the number of its Close values, whether its
\* bars carry distinct timestamps or all the same one, and the slope
\* np.polyfit gives when tau depends on the prices; the lengths are those
\* around max_lag and around 2 * max_lag - 1, from which every lag of a
\* day of distinct timestamps has a common timestamp
RegimeDays ==
    { [closes |-> k, stamps |-> "distinct", slope |-> 0] :
          k \in { max_lag - 1, max_lag, 2 * max_lag - 2, 2 * max_lag - 1 } }
    \cup { [closes |-> max_lag, stamps |-> "repeated", slope |-> h] :
               h \in HurstValues }

\* the bars given to MarketRegimeAnalysis, day by day
RegimeInputs == UNION { [1 .. days -> RegimeDays] : days \in 0 .. MaxDays }

\* the calendar days of the bars with the first kept
EveryDate(d) == [i \in 1 .. Len(d) |-> i]

\* self.unique_dates: the calendar days without the first
unique_dates(d) == [i \in 1 .. (Len(d) - 1) |-> i + 1]

\* lags = range(2, min(max_lag, len(series)))
lags(series) ==
    2 .. ((IF max_lag < series.closes THEN max_lag ELSE series.closes) - 1)

\* series[lag:] - series[:-lag]: the pairs of positions (from 0) whose values
\* are subtracted. pandas subtracts position by position when both indexes
\* are equal (every bar at one timestamp), and otherwise aligns on the
\* timestamps: a timestamp of both slices gives the value minus itself, any
\* other timestamp gives NaN, which np.std skips
LaggedDifferences(series, lag) ==
    IF series.stamps = "repeated"
    THEN { <<i + lag, i>> : i \in 0 .. (series.closes - lag - 1) }
    ELSE { <<i, i>> : i \in lag .. (series.closes - lag - 1) }

\* np.std of the differences: NaN without any, 0 when each is a value minus
\* itself, otherwise a number that depends on the prices
tau(series, lag) ==
    LET differences == LaggedDifferences(series, lag)
    IN  IF differences = {} THEN "nan"
        ELSE IF \A d \in differences : d[1] = d[2] THEN "zero"
        ELSE "data"

\* hurst_exponent(series): NaN for fewer than max_lag values; np.polyfit
\* gives NaN when a tau is NaN, slope 0 when every tau is the floor 1e-8
hurst_exponent(series) ==
    IF series.closes < max_lag THEN None
    ELSE IF \E lag \in lags(series) : tau(series, lag) = "nan" THEN None
    ELSE IF \A lag \in lags(series) : tau(series, lag) = "zero" THEN Some(0)
    ELSE Some(series.slope)

\* the if / elif chain of analyze_trends: the counter incremented, or None
TallyOf(hurst_value) ==
    IF hurst_value < LowerThreshold THEN Some("Mean-Reverting")
    ELSE IF LowerThreshold <= hurst_value /\ hurst_value <= UpperThreshold
    THEN Some("Random Walk")
    ELSE IF hurst_value > UpperThreshold THEN Some("Trending")
    ELSE None

\* the lambda taken to test the open interval 0.49 < x < 0.51
MarketTypeOpenInterval(x) ==
    IF x < LowerThreshold THEN "Mean-Reverting"
    ELSE IF LowerThreshold < x /\ x < UpperThreshold THEN "Random Walk"
    ELSE "Trending"

\* the lambda applied to hurst_df['hurst']
MarketType(x) ==
    IF x < LowerThreshold THEN "Mean-Reverting"
    ELSE IF LowerThreshold <= x /\ x <= UpperThreshold THEN "Random Walk"
    ELSE "Trending"

\* self.hurst_values_by_date[date] = hurst_value
SetRecord(records, date, hurst_value) ==
    IF \E i \in DOMAIN records : records[i].date = date
    THEN [i \in DOMAIN records |->
            IF records[i].date = date
            THEN [date |-> date, hurst |-> hurst_value] ELSE records[i]]
    ELSE Append(records, [date |-> date, hurst |-> hurst_value])

\* the loop of analyze_trends over dates[i ..], from the instance state st
RECURSIVE AnalyzeDates(_, _, _)
AnalyzeDates(dates, i, st) ==
    IF i > Len(dates) THEN st
    ELSE LET hurst_value == hurst_exponent(regime_df[dates[i]])
         IN  IF hurst_value = None THEN AnalyzeDates(dates, i + 1, st)
             ELSE LET tally == TallyOf(hurst_value[1])
                  IN  AnalyzeDates(dates, i + 1,
                        [records |-> SetRecord(st.records, dates[i], hurst_value[1]),
                         counts  |-> IF tally = None THEN st.counts
                                     ELSE [st.counts EXCEPT ![tally[1]] = @ + 1],
                         tallied |-> IF tally = None THEN st.tallied
                                     ELSE Append(st.tallied,
                                                 [date |-> dates[i], label |-> tally[1]])])

\* hurst_df: the records with their market_type
HurstFrame(records) ==
    [i \in DOMAIN records |->
        [date |-> records[i].date, hurst |-> records[i].hurst,
         market_type |-> MarketType(records[i].hurst)]]

\* the body of analyze_trends on the instance
RunAnalyzeTrends ==
    \E st \in { AnalyzeDates(unique_dates(regime_df), 1,
                             [records |-> hurst_values_by_date,
                              counts  |-> market_regime_counts,
                              tallied |-> tallied]) } :
        /\ hurst_values_by_date' = st.records
        /\ market_regime_counts' = st.counts
        /\ tallied' = st.tallied
        /\ hurst_df' = Some(HurstFrame(st.records))

InitRegime ==
    /\ df = <<>>
    /\ granularity = 1
    /\ NoBuilder
    /\ NoLetterList
    /\ NoStructure
    /\ regime_df \in RegimeInputs
    /\ NewRegimeAnalysis
    /\ NoUploader
    /\ fine_granularity = 0

\* analyze_trends()
analyze_trends ==
    /\ calls < MaxCalls
    /\ calls' = calls + 1
    /\ called' = "analyze_trends"
    /\ RunAnalyzeTrends
    /\ UNCHANGED <<profile_vars, letter_list_vars, structure_vars, regime_df,
                   uploader_vars, fine_granularity>>

\* a guard of plot_trend_analysis that is always true
AlwaysAnalyses(records) == TRUE

\* not self.hurst_values_by_date
NoRecordYet(records) == records = <<>>

\* plot_trend_analysis(): analyze_trends() first when there is no record
plot_trend_analysis ==
    /\ calls < MaxCalls
    /\ calls' = calls + 1
    /\ called' = "plot_trend_analysis"
    /\ IF NoRecordYet(hurst_values_by_date)
       THEN RunAnalyzeTrends
       ELSE UNCHANGED <<hurst_values_by_date, market_regime_counts, tallied, hurst_df>>
    /\ UNCHANGED <<profile_vars, letter_list_vars, structure_vars, regime_df,
                   uploader_vars, fine_granularity>>

NextRegime ==
    \/ analyze_trends
    \/ plot_trend_analysis

SpecRegime == InitRegime /\ [][NextRegime]_vars

----------------------------------------------------------------------------
(* FuturesPostgreSQLUploader of DataHandler.py and the three tables it     *)
(* writes through its one connection. A futures name is a number, a        *)
(* datetime a number of seconds. The tables are those the connection sees: *)
(* its own uncommitted rows included.                                      *)

FuturesNames == 1 .. MaxNames
Stamps == 1 .. MaxStamps

\* the CSV file of the uploader: its base name and its DateTime column
CsvFiles ==
    [name : FuturesNames,
     DateTime : UNION { [1 .. k -> Stamps] : k \in 0 .. MaxRows }]

\* the datetime values a caller passes: np.datetime64 or pandas Timestamp, of
\* the whole seconds that load_csv parses
DatetimeValues ==
    [type : {"datetime64", "Timestamp"}, seconds : Stamps, nanoseconds : {0}]

\* a datetime of the database: seconds and microseconds
Datetime(seconds) == [seconds |-> seconds, microseconds |-> 0]

\* the tables before the uploader is used: empty, or one row of an earlier upload
ExistingFutures ==
    {<<>>} \cup { <<[futures_id |-> 1, futures |-> Some(name)]>> : name \in FuturesNames }

ExistingDatetimes ==
    {<<>>} \cup { <<[datetime_id |-> 1, datetime |-> Some(Datetime(stamp))]>> : stamp \in Stamps }

\* the conversion at the head of insert_datetime: a np.datetime64 becomes the
\* datetime of its seconds since 1970 taken as a float; a Timestamp is passed
\* as it is and adapted as the datetime it extends
AsDatetime(datetime_value) ==
    [seconds |-> datetime_value.seconds,
     microseconds |-> datetime_value.nanoseconds \div 1000]

\* a SELECT that finds no row
NoRows(table, column, value) == {}

\* SELECT ... WHERE column = value: the rows found; NULL equals nothing
RowsWhere(table, column, value) ==
    { i \in DOMAIN table : value # None /\ table[i][column] = value }

\* fetchone() on the rows found
fetchone(rows) == CHOOSE i \in rows : \A j \in rows : i <= j

\* insert_datetime(datetime_value) on datetime_table: the table and the id returned
InsertDatetime(table, datetime_value) ==
    LET value == AsDatetime(datetime_value)
        result == RowsWhere(table, "datetime", Some(value))
    IN  IF result # {}
        THEN [table |-> table, id |-> table[fetchone(result)].datetime_id]
        ELSE [table |-> Append(table, [datetime_id |-> Len(table) + 1,
                                       datetime |-> Some(value)]),
              id |-> Len(table) + 1]

\* self.df['DateTime'].unique(): the values in order of first appearance
RECURSIVE unique(_)
unique(column) ==
    IF column = <<>> THEN <<>>
    ELSE LET front == unique(SubSeq(column, 1, Len(column) - 1))
             last == column[Len(column)]
         IN  IF \E i \in DOMAIN front : front[i] = last
             THEN front ELSE Append(front, last)

\* the loop of insert_all_datetimes over unique_datetimes[i ..]
RECURSIVE InsertAllDatetimes(_, _, _)
InsertAllDatetimes(table, unique_datetimes, i) ==
    IF i > Len(unique_datetimes) THEN table
    ELSE InsertAllDatetimes(
             InsertDatetime(table, [type |-> "datetime64",
                                    seconds |-> unique_datetimes[i],
                                    nanoseconds |-> 0]).table,
             unique_datetimes, i + 1)

\* the loop of insert_price_data over the rows i .. of self.df
RECURSIVE InsertPriceRows(_, _, _, _)
InsertPriceRows(tables, rows, futures_id, i) ==
    IF i > Len(rows) THEN tables
    ELSE LET got == InsertDatetime(tables.datetimes,
                                   [type |-> "Timestamp", seconds |-> rows[i],
                                    nanoseconds |-> 0])
         IN  InsertPriceRows(
                 [datetimes |-> got.table,
                  prices |-> Append(tables.prices,
                                    [futures_id |-> futures_id,
                                     datetime_id |-> got.id])],
                 rows, futures_id, i + 1)

InitUploader ==
    /\ df = <<>>
    /\ granularity = 1
    /\ NoBuilder
    /\ NoLetterList
    /\ NoStructure
    /\ NoRegime
    /\ csv_file \in CsvFiles
    /\ NewUploader
    /\ futures_table \in ExistingFutures
    /\ datetime_table \in ExistingDatetimes
    /\ price_table = <<>>
    /\ committed = [futures |-> Len(futures_table),
                    datetimes |-> Len(datetime_table), prices |-> 0]
    /\ fine_granularity = 0

\* what every uploader call leaves alone
outside_uploader == <<profile_vars, letter_list_vars, structure_vars, regime_vars, csv_file,
                      fine_granularity>>

\* self.conn.commit()
Commit(futures, datetimes, prices) ==
    committed' = [futures |-> Len(futures), datetimes |-> Len(datetimes),
                  prices |-> Len(prices)]

\* load_csv()
load_csv ==
    /\ uploads < MaxUploads
    /\ uploads' = uploads + 1
    /\ upload_df' = csv_file.DateTime
    /\ futures_name' = Some(csv_file.name)
    /\ returned' = Some([call |-> "load_csv", argument |-> None, value |-> None])
    /\ UNCHANGED <<outside_uploader, futures_table, datetime_table, price_table,
                   committed>>

\* insert_futures()
insert_futures ==
    /\ uploads < MaxUploads
    /\ uploads' = uploads + 1
    /\ LET result == RowsWhere(futures_table, "futures", futures_name)
       IN  IF result # {}
           THEN /\ returned' = Some([call |-> "insert_futures",
                                     argument |-> futures_name,
                                     value |-> Some(futures_table[fetchone(result)].futures_id)])
                /\ UNCHANGED <<futures_table, committed>>
           ELSE /\ futures_table' = Append(futures_table,
                                           [futures_id |-> Len(futures_table) + 1,
                                            futures |-> futures_name])
                /\ Commit(futures_table', datetime_table, price_table)
                /\ returned' = Some([call |-> "insert_futures",
                                     argument |-> futures_name,
                                     value |-> Some(Len(futures_table) + 1)])
    /\ UNCHANGED <<outside_uploader, futures_name, upload_df, datetime_table,
                   price_table>>

\* insert_datetime(datetime_value)
insert_datetime ==
    /\ uploads < MaxUploads
    /\ uploads' = uploads + 1
    /\ \E datetime_value \in DatetimeValues :
          \E got \in { InsertDatetime(datetime_table, datetime_value) } :
              /\ datetime_table' = got.table
              /\ returned' = Some([call |-> "insert_datetime",
                                   argument |-> Some(AsDatetime(datetime_value)),
                                   value |-> Some(got.id)])
    /\ UNCHANGED <<outside_uploader, futures_name, upload_df, futures_table,
                   price_table, committed>>

\* insert_all_datetimes(); an unloaded DataFrame has no DateTime column
insert_all_datetimes ==
    /\ uploads < MaxUploads
    /\ uploads' = uploads + 1
    /\ returned' = Some([call |-> "insert_all_datetimes", argument |-> None,
                         value |-> None])
    /\ IF futures_name = None
       THEN UNCHANGED <<datetime_table, committed>>
       ELSE /\ datetime_table' = InsertAllDatetimes(datetime_table, unique(upload_df), 1)
            /\ Commit(futures_table, datetime_table', price_table)
    /\ UNCHANGED <<outside_uploader, futures_name, upload_df, futures_table,
                   price_table>>

\* insert_price_data(futures_id)
insert_price_data ==
    /\ uploads < MaxUploads
    /\ uploads' = uploads + 1
    /\ \E futures_id \in {None} \cup { Some(id) : id \in 1 .. MaxNames } :
          /\ returned' = Some([call |-> "insert_price_data", argument |-> futures_id,
                               value |-> None])
          /\ IF futures_id = None \/ upload_df = <<>>
             THEN UNCHANGED <<datetime_table, price_table, committed>>
             ELSE \E tables \in { InsertPriceRows([datetimes |-> datetime_table,
                                                   prices |-> price_table],
                                                  upload_df, futures_id[1], 1) } :
                      /\ datetime_table' = tables.datetimes
                      /\ price_table' = tables.prices
                      /\ Commit(futures_table, datetime_table', price_table')
    /\ UNCHANGED <<outside_uploader, futures_name, upload_df, futures_table>>

NextUploader ==
    \/ load_csv
    \/ insert_futures
    \/ insert_datetime
    \/ insert_all_datetimes
    \/ insert_price_data

SpecUploader == InitUploader /\ [][NextUploader]_vars

----------------------------------------------------------------------------
(* The Classes letter builder at a granularity below 0.001, which its      *)
(* validation accepts. The granularity is a number of fifths of 0.001 that *)
(* is not a multiple of 5, so no level lies halfway between two multiples  *)
(* of 0.001 and round(price, 3) does not depend on the last bit.           *)

\* 0.0002 and 0.0004
FineGranularities == {1, 2}

\* len(np.arange(start, stop, step)) for a span and step in fifths of 0.001:
\* ceil(span / step); when the step divides the span the float quotient is
\* the whole number or just above it, which gives one more element
FineArangeLens(span, step) ==
    IF span <= 0 THEN {0}
    ELSE IF span % step # 0 THEN {(span \div step) + 1}
    ELSE {span \div step, (span \div step) + 1}

\* [round(p, 3) for p in np.arange(start, ...)] of that length: start is a
\* multiple of 0.001 in ticks, the result is in ticks
FineRounded(start, step, length) ==
    [i \in 1 .. length |-> (5 * start + (i - 1) * step + 2) \div 5]

\* {round(price, 3): [] for price in ...}: one key per distinct value, in
\* order of first appearance
RECURSIVE FineKeys(_)
FineKeys(rounded) ==
    IF Len(rounded) = 0 THEN <<>>
    ELSE LET front == FineKeys(SubSeq(rounded, 1, Len(rounded) - 1))
             last == rounded[Len(rounded)]
         IN  IF \E i \in DOMAIN front : front[i].k = last
             THEN front ELSE Append(front, [k |-> last, v |-> <<>>])

\* for price in levels: if price in d: d[price].append(letter); a key
\* receives the letter once for every level that rounds to it
FineAppendAtLevels(d, levels, letter) ==
    [i \in DOMAIN d |->
        [k |-> d[i].k,
         v |-> d[i].v \o [x \in 1 .. Cardinality({ j \in DOMAIN levels :
                                                     levels[j] = d[i].k }) |-> letter]]]

\* the loop over enumerate(df.iterrows()), rows r .. len(df); lens[r] is the
\* length of the row's np.arange(low, high + granularity, granularity)
RECURSIVE FineLetterRows(_, _, _, _, _)
FineLetterRows(d, rows, step, lens, r) ==
    IF r > Len(rows) THEN d
    ELSE FineLetterRows(
             FineAppendAtLevels(d, FineRounded(rows[r].Low, step, lens[r]),
                                generate_letter_list(Len(rows))[r]),
             rows, step, lens, r + 1)

\* the lengths the rows' aranges can have
FineRowLens(rows, step) ==
    { lens \in [DOMAIN rows -> 0 .. (5 * PriceSpan + step + 1)] :
        \A r \in DOMAIN rows :
            lens[r] \in FineArangeLens(5 * (rows[r].High - rows[r].Low) + step, step) }

\* the price_dict values the builder can compute
FineLetterTables(rows, step) ==
    { FineLetterRows(
          FineKeys(FineRounded(min_price(rows).t, step, ladder_len)),
          rows, step, lens, 1) :
        ladder_len \in FineArangeLens(5 * (max_price(rows).t - min_price(rows).t), step),
        lens \in FineRowLens(rows, step) }

\* the granularity is in fine_granularity; granularity, in whole ticks, is unused
InitFineLetters ==
    /\ df \in DataFrames
    /\ granularity = 0
    /\ NoBuilder
    /\ NoLetterList
    /\ NoStructure
    /\ NoRegime
    /\ NoUploader
    /\ fine_granularity \in FineGranularities

\* Classes: market_profile_and_visualize_letters(df, granularity) with
\* granularity = fine_granularity / 5000
fine_market_profile_and_visualize_letters ==
    /\ pc = "ready"
    /\ IF df = <<>>
       THEN Fails("market_profile_and_visualize_letters", "ValueError", FALSE, None)
       ELSE \E table \in FineLetterTables(df, fine_granularity) :
            \E counts \in {sorted_price_counts(table)} :
            \E area \in {{ counts[i].k : i \in 1 .. LetterAreaLen(counts, 0, 0) }} :
                IF counts = <<>>
                THEN Fails("market_profile_and_visualize_letters", "ValueError",
                           FALSE, Some(table))
                ELSE /\ pc' = "market_profile_and_visualize_letters"
                     /\ exc' = None
                     /\ raised' = FALSE
                     /\ price_dict' = Some(table)
                     /\ value_area_prices' = area
                     /\ profile' = Some(Reversed(table))
                     /\ poc' = Some(counts[ArgMax(counts)].k)
                     /\ vah' = Some(Max(area))
                     /\ val' = Some(Min(area))
                     /\ UNCHANGED <<df, granularity, outside_builders>>

\* scripts: market_profile_with_letters(df, granularity) with that
\* granularity, which is not in its list
fine_market_profile_with_letters ==
    /\ pc = "ready"
    /\ Fails("market_profile_with_letters", "ValueError", TRUE, None)

NextFineLetters ==
    \/ fine_market_profile_and_visualize_letters
    \/ fine_market_profile_with_letters

SpecFineLetters == InitFineLetters /\ [][NextFineLetters]_vars

----------------------------------------------------------------------------
(* Properties of the count and volume profiles.                            *)

CountBuilders == {"market_profile_and_visualize", "market_profile_and_visualize_bars"}
VolumeBuilders == {"volume_profile_and_visualize", "Classes.volume_profile_and_visualize"}
LetterBuilders == {"market_profile_with_letters", "market_profile_and_visualize_letters"}

\* a count or volume builder has returned a profile with its PoC, VAH, VAL
AggregateReturned == pc \in CountBuilders \cup VolumeBuilders /\ exc = None

\* the largest mass of a profile
MaxMass(d) == Max({ d[i].v : i \in DOMAIN d })

\* the masses of the buckets of profile d whose prices are in area, summed
AreaMass(d, area) ==
    SumValues(SelectSeq(d, LAMBDA entry : entry.k \in area))

\* mass is at least 70% of total
SeventyPercent(mass, total) == 10 * mass >= 7 * total

\* the smallest mass among the buckets of d whose prices are in area
LowestAreaMass(d, area) == Min({ d[i].v : i \in { j \in DOMAIN d : d[j].k \in area } })

\* C1: the count and volume profiles return VAL <= PoC <= VAH for every
\* non-empty bar sequence, also when several buckets tie for the maximum
\* mass and when every bucket has mass 0.
C1_ValBelowPocBelowVah ==
    AggregateReturned => (val[1] <= poc[1] /\ poc[1] <= vah[1])

\* the Value Area the specification describes: buckets by descending mass,
\* the higher price first among equal masses, until 70% of the total
RECURSIVE StableValueArea(_, _, _)
StableValueArea(d, taken, cumulative) ==
    LET rest == DOMAIN d \ taken
        i    == Min({ j \in rest : \A m \in rest : d[m].v <= d[j].v })
    IN  IF rest = {} THEN taken
        ELSE IF ReachesThreshold(cumulative + d[i].v, SumValues(d))
        THEN taken \cup {i}
        ELSE StableValueArea(d, taken \cup {i}, cumulative + d[i].v)

\* C2: the Value Area buckets are taken by descending mass, the higher price
\* first among equal masses, up to the first bucket that brings the
\* cumulative mass to 70% of the total; VAH and VAL are the maximum and the
\* minimum price taken.
C2_ValueAreaTakesHigherPriceFirst ==
    AggregateReturned =>
        /\ value_area_prices =
             { profile[1][i].k : i \in StableValueArea(profile[1], {}, 0) }
        /\ vah[1] = Max(value_area_prices)
        /\ val[1] = Min(value_area_prices)

\* C3: the Point of Control is a bucket of maximum mass, and of the buckets
\* that share the maximum mass it is the one with the highest price.
C3_PocIsHighestPriceOfMaximumMass ==
    AggregateReturned =>
        poc[1] = Max({ profile[1][i].k :
                       i \in { j \in DOMAIN profile[1] :
                               profile[1][j].v = MaxMass(profile[1]) } })

\* reached for C3: two buckets of a returned profile share a positive maximum
C3_Witness ==
    /\ AggregateReturned
    /\ MaxMass(profile[1]) > 0
    /\ \E i, j \in DOMAIN profile[1] :
          /\ i # j
          /\ profile[1][i].v = MaxMass(profile[1])
          /\ profile[1][j].v = MaxMass(profile[1])

\* C4 as stated: the selected buckets hold >= 70% of the total mass, and
\* without the lowest-mass selected bucket they hold strictly less than 70%,
\* for every input, a profile of total mass 0 included.
C4_ValueAreaMinimalAlways ==
    AggregateReturned =>
        /\ SeventyPercent(AreaMass(profile[1], value_area_prices), SumValues(profile[1]))
        /\ ~SeventyPercent(AreaMass(profile[1], value_area_prices)
                               - LowestAreaMass(profile[1], value_area_prices),
                             SumValues(profile[1]))

\* C4, amended: the selected buckets hold >= 70% of the total mass; when the
\* total mass is positive they hold strictly less than 70% without the
\* lowest-mass selected bucket; when the total mass is 0 exactly one bucket
\* is selected.
C4_ValueAreaMinimalWhenPositive ==
    AggregateReturned =>
        /\ SeventyPercent(AreaMass(profile[1], value_area_prices), SumValues(profile[1]))
        /\ SumValues(profile[1]) > 0 =>
             ~SeventyPercent(AreaMass(profile[1], value_area_prices)
                                 - LowestAreaMass(profile[1], value_area_prices),
                               SumValues(profile[1]))
        /\ SumValues(profile[1]) = 0 => Cardinality(value_area_prices) = 1

\* reached for C4: a returned profile of positive total mass whose Value Area
\* takes more than one bucket
C4_Witness ==
    /\ AggregateReturned
    /\ SumValues(profile[1]) > 0
    /\ Cardinality(value_area_prices) >= 2

\* a count builder has built its high-resolution table
CountTableBuilt == pc \in CountBuilders /\ price_dict # None

\* a volume builder has returned its profile
VolumeReturned == pc \in VolumeBuilders /\ exc = None

\* a letter builder has returned its profile
LettersReturned == pc \in LetterBuilders /\ exc = None

\* C5: in Count mode the high-resolution table receives +1 from a bar at
\* every 0.001-spaced level p with low <= p < high, whatever the requested
\* granularity, so a bar adds (high - low) / 0.001 to the total count.
C5_CountAtEveryFineLevel ==
    CountTableBuilt =>
        \A i \in DOMAIN price_dict[1] :
            price_dict[1][i].v =
                Cardinality({ r \in DOMAIN df :
                                /\ df[r].Low <= price_dict[1][i].k
                                /\ price_dict[1][i].k < df[r].High })

\* the volumes, in units of 1 / MassUnit, of the bars of d with High > Low
RECURSIVE TouchingVolume(_)
TouchingVolume(d) ==
    IF d = <<>> THEN 0
    ELSE (IF d[1].High > d[1].Low THEN d[1].Volume * MassUnit ELSE 0)
         + TouchingVolume(Tail(d))

\* C6: in Volume mode the total mass of the returned profile equals the sum
\* of the volumes of the bars with high > low: no volume is lost or counted
\* twice, also when a bar's Low is not aligned with the start of the ladder.
C6_VolumeConserved ==
    VolumeReturned => SumValues(profile[1]) = TouchingVolume(df)

\* the share a bar adds to level k when its volume is divided among the
\* 0.001-spaced levels of [low, high)
FineShare(row, k) ==
    IF row.Low <= k /\ k < row.High
    THEN (row.Volume * MassUnit) \div (row.High - row.Low)
    ELSE 0

\* the fine shares the rows r .. len(d) add to level k
RECURSIVE FineMass(_, _, _)
FineMass(d, r, k) ==
    IF r > Len(d) THEN 0
    ELSE FineShare(d[r], k) + FineMass(d, r + 1, k)

SteppedLevels(row, step, counted) ==
    { p \in row.Low .. row.High :
        /\ (p - row.Low) % step = 0
        /\ row.Low < row.High
        /\ p < row.High \/ counted }

\* the share a bar adds to level k when its volume is divided among its
\* stepped levels
SteppedShare(row, step, counted, k) ==
    IF k \in SteppedLevels(row, step, counted)
    THEN (row.Volume * MassUnit) \div Cardinality(SteppedLevels(row, step, counted))
    ELSE 0

\* the stepped shares the rows r .. len(d) add to level k
RECURSIVE SteppedMass(_, _, _, _, _)
SteppedMass(d, r, k, step, counted) ==
    IF r > Len(d) THEN 0
    ELSE SteppedShare(d[r], step, counted[r], k)
         + SteppedMass(d, r + 1, k, step, counted)

C8_RebucketFloorsToMultiple ==
    AggregateReturned =>
        /\ \A i \in DOMAIN profile[1] : profile[1][i].k % granularity = 0
        /\ \A j \in DOMAIN price_dict[1] :
              (price_dict[1][j].k \div granularity) * granularity \in Keys(profile[1])
        /\ \A i \in DOMAIN profile[1] :
              profile[1][i].v =
                  SumValues(SelectSeq(price_dict[1],
                      LAMBDA entry :
                          (entry.k \div granularity) * granularity = profile[1][i].k))

\* C9: letter profile: a bar's letter is appended to the bucket of every
\* ladder level p with low <= p <= high + granularity and to no ladder level
\* outside that range, also when the bar's Low is not a whole number of
\* granularity steps from the first level of the ladder.
C9_LetterAtEveryLevelInRange ==
    LettersReturned =>
        \A i \in DOMAIN profile[1] : \A r \in DOMAIN df :
            (\E j \in DOMAIN profile[1][i].v :
                 profile[1][i].v[j] = generate_letter_list(Len(df))[r])
            <=> /\ df[r].Low <= profile[1][i].k
                /\ profile[1][i].k <= df[r].High + granularity

\* C10: the keys of the price ladder are exactly the levels
\* floor3(min_price) + i * granularity, i = 0, 1, ..., that are strictly
\* below ceil3(max_price).
C10_LadderIsHalfOpen ==
    LettersReturned =>
        Keys(profile[1]) =
            { p \in lowest_price(df) .. (highest_price(df) - 1) :
                (p - lowest_price(df)) % granularity = 0 }

\* a builder has returned a profile
ProfileReturned == pc # "ready" /\ profile # None

\* C11: every profile returned by the letter, count and volume builders
\* lists its price levels in strictly descending price order, so no price
\* level appears twice.
C11_ProfileStrictlyDescending ==
    ProfileReturned =>
        \A i, j \in DOMAIN profile[1] :
            i < j => profile[1][i].k > profile[1][j].k

\* reached for C11: a letter builder has returned a profile of three or more
\* price levels
C11_Witness ==
    /\ ProfileReturned
    /\ pc \in LetterBuilders
    /\ Len(profile[1]) >= 3

\* the number of the length class of index i and its rank in the class:
\* the labels of one length come before every longer label
RECURSIVE RankInLength(_, _, _)
RankInLength(i, length, block) ==
    IF i < block THEN [length |-> length, rank |-> i]
    ELSE RankInLength(i - block, length + 1, block * 26)

\* rank written with length letters, A standing for 0 and Z for 25
RECURSIVE FixedWidth(_, _)
FixedWidth(rank, length) ==
    IF length = 0 THEN ""
    ELSE FixedWidth(rank \div 26, length - 1) \o Alphabet[(rank % 26) + 1]

\* the bijective base-26 (spreadsheet column) label of index i
ColumnLabel(i) ==
    FixedWidth(RankInLength(i, 1, 26).rank, RankInLength(i, 1, 26).length)

\* generate_letter_list has returned
LetterListReturned ==
    pc \in {"generate_letter_list", "Classes.generate_letter_list"} /\ letters # None

\* C12: generate_letter_list(n) returns exactly n labels, the i-th being the
\* bijective base-26 label of i (0 is A, 25 is Z, 26 is AA, 51 is AZ, 52 is
\* BA, 701 is ZZ, 702 is AAA), and generate(n + 1)[:n] = generate(n).
C12_LettersAreColumnLabels ==
    LetterListReturned =>
        /\ Len(letters[1]) = n
        /\ \A i \in 1 .. n : letters[1][i] = ColumnLabel(i - 1)
        /\ \A known \in { <<0, "A">>, <<25, "Z">>, <<26, "AA">>, <<51, "AZ">>,
                          <<52, "BA">>, <<701, "ZZ">>, <<702, "AAA">> } :
              known[1] < n => letters[1][known[1] + 1] = known[2]
        /\ SubSeq(generate_letter_list(n + 1), 1, n) = letters[1]

\* reached for C12: a list whose last label is the first of three letters
C12_Witness ==
    /\ LetterListReturned
    /\ n = 703
    /\ letters[1][703] = "AAA"

\* a count or volume builder has ended, with a profile or with an error
AggregateEnded == pc \in CountBuilders \cup VolumeBuilders

\* nothing was computed and nothing is returned
NothingReturned ==
    /\ price_dict = None
    /\ value_area_prices = {}
    /\ profile = None
    /\ poc = None
    /\ vah = None
    /\ val = None

\* C13: the count and volume builders reject every granularity that is not
\* strictly positive or not one of 0.001, 0.005, 0.01, 0.02, 0.05, 0.10,
\* 0.25: the call ends in an error before any bucket is computed and no
\* profile, PoC, VAH or VAL is returned.
C13_InvalidGranularityRejected ==
    (AggregateEnded /\ (granularity <= 0 \/ granularity \notin {1, 5, 10, 20, 50, 100, 250})) =>
        /\ exc = Some("ValueError")
        /\ NothingReturned

\* reached for C13: a count or volume builder has rejected the positive
\* granularity 0.003 for a DataFrame that has bars
C13_Witness ==
    /\ AggregateEnded
    /\ granularity = 3
    /\ df # <<>>
    /\ exc = Some("ValueError")
    /\ NothingReturned

\* C14: both letter builders accept any strictly positive granularity, also
\* one outside the accepted list of the count and volume builders: for a
\* DataFrame that has bars they return a letter profile and not an error.
C14_LettersAcceptAnyPositiveGranularity ==
    (pc \in LetterBuilders /\ granularity > 0 /\ df # <<>>) =>
        /\ exc = None
        /\ profile # None

\* the Classes letter builder has returned its profile, PoC, VAH and VAL
LetterAreaReturned == pc = "market_profile_and_visualize_letters" /\ exc = None

\* C15: in the letter profile with Value Area the buckets from which VAH and
\* VAL are derived are selected greedily by descending mass (number of
\* letters) until they hold >= 70% of the total mass, and the returned
\* triple satisfies VAL <= PoC <= VAH.
C15_LetterAreaGreedyAroundPoc ==
    LetterAreaReturned =>
        /\ value_area_prices \in ValueAreaOutcomes(sorted_price_counts(price_dict[1]))
        /\ val[1] <= poc[1]
        /\ poc[1] <= vah[1]

\* one of the six profile builders has ended
BuilderEnded == pc \in LetterBuilders \cup CountBuilders \cup VolumeBuilders

\* C16: given a DataFrame without bars and an accepted granularity, every
\* profile builder ends in an error: it returns no profile and no PoC, VAH
\* or VAL, and it fails before any ladder, level count or bucket set exists,
\* so nothing is divided by a zero count and no max or min is taken over an
\* empty bucket set.
C16_EmptySeriesRejected ==
    (BuilderEnded /\ df = <<>> /\ granularity \in {1, 5, 10, 20, 50, 100, 250}) =>
        /\ exc = Some("ValueError")
        /\ NothingReturned

\* reached for C16: a count builder called without bars and with the accepted
\* granularity 0.005 has ended in its error
C16_Witness ==
    /\ pc \in CountBuilders
    /\ df = <<>>
    /\ granularity = 5
    /\ exc = Some("ValueError")
    /\ NothingReturned

\* price_structure_analysis has run
StructureAnalysed ==
    pc \in {"price_structure_analysis", "Classes.price_structure_analysis"}

\* every value of agg_dict is a list of letters
IsLetterProfile(d) == \A i \in DOMAIN d : d[i].v.kind = "list"

\* every value of agg_dict is a number
IsNumericProfile(d) == \A i \in DOMAIN d : d[i].v.kind = "number"

\* the mass of a bucket: its number of letters, or its number
LevelMass(value) == IF value.kind = "list" THEN Len(value.items) ELSE value.number

\* the combined mass of buckets
RECURSIVE CombinedMass(_)
CombinedMass(entries) ==
    IF entries = <<>> THEN 0
    ELSE LevelMass(entries[1].v) + CombinedMass(Tail(entries))

\* the labels the specification gives
HighLabels == {"Poor/Weak High", "Strong High"}
LowLabels == {"Poor/Weak Low", "Strong Low"}

\* C17: on a letter profile of at least 2 buckets, price_structure_analysis
\* produces exactly one high label and one low label: 'Poor/Weak High' when
\* the two highest-price buckets hold more than 2 letters together, else
\* 'Strong High'; 'Poor/Weak Low' when the two lowest-price buckets hold more
\* than 2 letters together, else 'Strong Low'.
C17_LetterStructureLabels ==
    (StructureAnalysed /\ IsLetterProfile(agg_dict) /\ Len(agg_dict) >= 2) =>
        printed =
            << IF CombinedMass(SubSeq(agg_dict, 1, 2)) > 2
               THEN "Poor/Weak High" ELSE "Strong High",
               IF CombinedMass(SubSeq(agg_dict, Len(agg_dict) - 1, Len(agg_dict))) > 2
               THEN "Poor/Weak Low" ELSE "Strong Low" >>

\* C18: on a numeric profile of at least 2 buckets, price_structure_analysis
\* compares the sum of the two buckets' numeric masses with 2: the high label
\* is 'Poor/Weak High' exactly when the two highest-price buckets sum to more
\* than 2, and the low label is 'Strong Low' exactly when the two
\* lowest-price buckets sum to at most 2.
C18_NumericStructureUsesMass ==
    (StructureAnalysed /\ IsNumericProfile(agg_dict) /\ Len(agg_dict) >= 2) =>
        /\ Len(printed) = 2
        /\ printed[1] = "Poor/Weak High" <=> CombinedMass(SubSeq(agg_dict, 1, 2)) > 2
        /\ printed[2] = "Strong Low"
             <=> CombinedMass(SubSeq(agg_dict, Len(agg_dict) - 1, Len(agg_dict))) <= 2

\* C19: given a profile of fewer than 2 buckets, both copies of
\* price_structure_analysis end in an error and produce neither a high label
\* nor a low label.
C19_InsufficientLevelsRejected ==
    (StructureAnalysed /\ Len(agg_dict) < 2) =>
        /\ exc # None
        /\ \A i \in DOMAIN printed :
              printed[i] \notin HighLabels \cup LowLabels \cup {"Poor Weak Low"}

\* the label of the specification: Random Walk on the closed interval
ClosedIntervalLabel(hurst) ==
    IF hurst < 490 THEN "Mean-Reverting"
    ELSE IF hurst > 510 THEN "Trending"
    ELSE "Random Walk"

\* C20: every defined Hurst value gets exactly one label: Mean-Reverting
\* below 0.49, Random Walk from 0.49 to 0.51 with both ends, Trending above
\* 0.51; the label stored per day in hurst_df is that label, and it is the
\* label of every counter increment made for that day, of which there is at
\* least one.
C20_RegimeLabelMatchesTally ==
    hurst_df # None =>
        \A i \in DOMAIN hurst_df[1] :
            /\ hurst_df[1][i].market_type = ClosedIntervalLabel(hurst_df[1][i].hurst)
            /\ \E j \in DOMAIN tallied : tallied[j].date = hurst_df[1][i].date
            /\ \A j \in DOMAIN tallied :
                  tallied[j].date = hurst_df[1][i].date
                      => tallied[j].label = hurst_df[1][i].market_type

\* reached for C20: hurst_df holds a day of Hurst exponent exactly 0.49 and a
\* day of exactly 0.51, both Random Walk
C20_Witness ==
    /\ hurst_df # None
    /\ \E i, j \in DOMAIN hurst_df[1] :
          /\ hurst_df[1][i].hurst = 490
          /\ hurst_df[1][j].hurst = 510
          /\ hurst_df[1][i].market_type = "Random Walk"
          /\ hurst_df[1][j].market_type = "Random Walk"

\* analyze_trends has run on the instance
TrendsAnalysed == hurst_df # None

\* the day has a per-day record
HasRecord(date) ==
    \E i \in DOMAIN hurst_values_by_date : hurst_values_by_date[i].date = date

\* a counter was incremented for the day
HasTally(date) ==
    \E j \in DOMAIN tallied : tallied[j].date = date

\* C21: a day of fewer than max_lag closing prices has an undefined Hurst
\* exponent, no per-day record and no counter increment; a day after the
\* first of exactly max_lag closing prices is computable: its Hurst exponent
\* is defined and analyze_trends records it.
C21_ShortSeriesUndefined ==
    TrendsAnalysed =>
        \A date \in DOMAIN regime_df :
            /\ regime_df[date].closes < max_lag =>
                  /\ hurst_exponent(regime_df[date]) = None
                  /\ ~ HasRecord(date)
                  /\ ~ HasTally(date)
            /\ (date > 1 /\ regime_df[date].closes = max_lag) =>
                  /\ hurst_exponent(regime_df[date]) # None
                  /\ HasRecord(date)

\* C22: the first calendar day of the bars never gets a per-day record or a
\* counter increment; after analyze_trends every other day whose Hurst
\* exponent is defined has exactly one record, holding the Hurst exponent of
\* that day's closing prices.
C22_FirstDayExcluded ==
    /\ ~ HasRecord(1)
    /\ ~ HasTally(1)
    /\ TrendsAnalysed =>
          \A date \in 2 .. Len(regime_df) :
              hurst_exponent(regime_df[date]) # None =>
                  /\ Cardinality({ i \in DOMAIN hurst_values_by_date :
                                       hurst_values_by_date[i].date = date }) = 1
                  /\ \A i \in DOMAIN hurst_values_by_date :
                        hurst_values_by_date[i].date = date =>
                            Some(hurst_values_by_date[i].hurst)
                                = hurst_exponent(regime_df[date])

\* reached for C22: analyze_trends has run on bars whose first day has a
\* defined Hurst exponent and whose later days gave two different records
C22_Witness ==
    /\ TrendsAnalysed
    /\ Len(regime_df) = 3
    /\ hurst_exponent(regime_df[1]) # None
    /\ Len(hurst_values_by_date) = 2
    /\ hurst_values_by_date[1].hurst # hurst_values_by_date[2].hurst

\* C23: analyze_trends is idempotent: once it has run on an instance, a
\* further call on the same bars leaves the per-day records and the three
\* regime counters as the first call left them.
C23_AnalyzeTrendsIdempotent ==
    [][TrendsAnalysed =>
          /\ hurst_values_by_date' = hurst_values_by_date
          /\ market_regime_counts' = market_regime_counts]_vars

\* C24: for a day of n >= max_lag closing prices, as analyze_trends passes
\* it, hurst_exponent uses the lags 2 .. min(max_lag, n) - 1, takes tau(lag)
\* over the positional differences series[i + lag] - series[i] for
\* i = 0 .. n - lag - 1, and returns a defined slope.
C24_TauOverPositionalDifferences ==
    TrendsAnalysed =>
        \A date \in 2 .. Len(regime_df) :
            LET series == regime_df[date]
                last == IF max_lag < series.closes THEN max_lag ELSE series.closes
            IN  series.closes >= max_lag =>
                    /\ lags(series) = 2 .. (last - 1)
                    /\ \A lag \in lags(series) :
                          LaggedDifferences(series, lag)
                              = { <<i + lag, i>> : i \in 0 .. (series.closes - lag - 1) }
                    /\ hurst_exponent(series) # None

\* C25: through one uploader connection, futures_table never holds two rows
\* of one futures name and datetime_table never two rows of one datetime,
\* and insert_futures and insert_datetime return the id of the one row of
\* the name or datetime they were called for.
C25_OneRowPerNameAndDatetime ==
    /\ \A i, j \in DOMAIN futures_table :
          (futures_table[i].futures # None
              /\ futures_table[i].futures = futures_table[j].futures) => i = j
    /\ \A i, j \in DOMAIN datetime_table :
          datetime_table[i].datetime = datetime_table[j].datetime => i = j
    /\ (returned # None /\ returned[1].call = "insert_futures"
            /\ returned[1].argument # None) =>
          \E i \in DOMAIN futures_table :
              /\ futures_table[i].futures = returned[1].argument
              /\ returned[1].value = Some(futures_table[i].futures_id)
    /\ (returned # None /\ returned[1].call = "insert_datetime") =>
          \E i \in DOMAIN datetime_table :
              /\ datetime_table[i].datetime = returned[1].argument
              /\ returned[1].value = Some(datetime_table[i].datetime_id)

\* reached for C25: two price rows were stored for one datetime row, and a
\* later insert_datetime of that datetime returned the id of the row
C25_Witness ==
    /\ Len(price_table) = 2
    /\ price_table[1].datetime_id = price_table[2].datetime_id
    /\ returned # None
    /\ returned[1].call = "insert_datetime"
    /\ returned[1].value = Some(price_table[1].datetime_id)

\* C26: in every state reached by analyze_trends and plot_trend_analysis
\* calls, each regime counter equals the number of per-day records of that
\* label, and the three counters add up to the number of records.
C26_TallyMatchesRecords ==
    /\ \A label \in DOMAIN market_regime_counts :
          market_regime_counts[label]
              = Cardinality({ i \in DOMAIN hurst_values_by_date :
                    ClosedIntervalLabel(hurst_values_by_date[i].hurst) = label })
    /\ market_regime_counts["Mean-Reverting"] + market_regime_counts["Random Walk"]
          + market_regime_counts["Trending"] = Len(hurst_values_by_date)

\* C27: plot_trend_analysis runs analyze_trends only when there is no per-day
\* record: with a record it increments no counter, and once analyze_trends
\* has run, a plot_trend_analysis call leaves the per-day records and the
\* regime counters unchanged, also when that run produced no record.
C27_PlotKeepsAnalysis ==
    [][called' = "plot_trend_analysis" /\ calls' = calls + 1 =>
          /\ hurst_values_by_date # <<>> => tallied' = tallied
          /\ TrendsAnalysed =>
                /\ hurst_values_by_date' = hurst_values_by_date
                /\ market_regime_counts' = market_regime_counts]_vars

\* reached for C27: plot_trend_analysis was called after analyze_trends had
\* run and produced a record, and each day was tallied once
C27_Witness ==
    /\ called = "plot_trend_analysis"
    /\ calls = 2
    /\ TrendsAnalysed
    /\ hurst_values_by_date # <<>>
    /\ Len(tallied) = Len(hurst_values_by_date)

\* the three builders of the Classes module
ClassesBuilders ==
    {"market_profile_and_visualize_letters", "market_profile_and_visualize_bars",
     "Classes.volume_profile_and_visualize"}

C29_ValidBarsGiveProfile ==
    (AggregateEnded /\ df # <<>> /\ granularity \in {1, 5, 10, 20, 50, 100, 250}) =>
        /\ exc = None
        /\ profile # None
        /\ profile[1] # <<>>
        /\ poc # None
        /\ vah # None
        /\ val # None

\* a letter builder has returned its profile
LetterProfileReturned == pc \in LetterBuilders /\ profile # None

\* the position in df of the bar labelled label
BarOfLabel(label) == CHOOSE r \in DOMAIN df : ColumnLabel(r - 1) = label

\* C30: in every letter profile the bars carry pairwise distinct labels by
\* their position in df, and the label list of each bucket names bars in
\* strictly increasing position, so no bar is named twice in a bucket.
C30_LabelsOncePerBucketInOrder ==
    LetterProfileReturned =>
        /\ \A r1, r2 \in DOMAIN df :
              ColumnLabel(r1 - 1) = ColumnLabel(r2 - 1) => r1 = r2
        /\ \A i \in DOMAIN profile[1] :
              LET labels == profile[1][i].v
              IN  /\ \A a \in DOMAIN labels :
                        \E r \in DOMAIN df : ColumnLabel(r - 1) = labels[a]
                  /\ \A a, b \in DOMAIN labels :
                        a < b => BarOfLabel(labels[a]) < BarOfLabel(labels[b])

=============================================================================
